---- MODULE Spec2Model ----
(***************************************************************************)
(* Model of pytext/task/task.py: TaskBase.from_config, __init__, train,    *)
(* test, export, format_prediction and predict, together with the          *)
(* process-global flag cuda_utils.CUDA_ENABLED.                            *)
(*                                                                         *)
(* Python values are records with a "kind" field; None is one of them.     *)
(* Every call a method makes on a collaborator is appended to the log      *)
(* `calls`, in the order the code makes it, the call that raised last.     *)
(* A collaborator may raise: the input `fail` of from_config, train, test  *)
(* and export is the position in that log of the call that raises (0 when  *)
(* none does); the exception propagates, so the method stops there.        *)
(***************************************************************************)
EXTENDS Integers, Sequences, FiniteSets

VARIABLES CUDA_ENABLED, task, training, test_path, calls, outcome, result,
          last, before_export

vars == <<CUDA_ENABLED, task, training, test_path, calls, outcome, result,
          last, before_export>>

(* ------------------------------ bounds -------------------------------- *)
MaxExamples == 3

(* --------------------------- Python values ---------------------------- *)
None == [kind |-> "None"]
EmptyDict == [kind |-> "EmptyDict"]
SavedMetadata == [kind |-> "Metadata", origin |-> "saved"]
FreshMetadata == [kind |-> "Metadata", origin |-> "init_metadata"]
SavedState == [kind |-> "StateDict"]
ExporterConfig == [kind |-> "ExporterConfig"]
SchedulerConfig == [kind |-> "SchedulerConfig"]
SummaryWriter == [kind |-> "SummaryWriter"]

IsNone(v) == v.kind = "None"

\* Python truth value of an object: None and empty containers are false.
Truthy(v) == v.kind \notin {"None", "EmptyDict"}

Call(fn, arg) == [fn |-> fn, arg |-> arg]

Names(cs) == {cs[i].fn : i \in 1..Len(cs)}

Pos(cs, fn) == IF fn \in Names(cs)
               THEN CHOOSE i \in 1..Len(cs) :
                        cs[i].fn = fn /\ \A j \in 1..(i - 1) : cs[j].fn # fn
               ELSE 0

Prefix(s, n) == SubSeq(s, 1, n)

\* The calls that completed when the call at position fail raised.
Reached(full, fail) == IF fail = 0 THEN full ELSE Prefix(full, fail)

Min(a, b) == IF a < b THEN a ELSE b

(* --------------------------- collaborators ---------------------------- *)
\* DataHandler.load_metadata stores the given metadata on the data handler;
\* DataHandler.init_metadata computes it from the data.
load_metadata(metadata) == metadata
init_metadata == FreshMetadata

create_model(metadata) ==
    [kind |-> "Model", metadata |-> metadata, state |-> None, device |-> "cpu"]
load_state_dict(model, model_state) == [model EXCEPT !.state = model_state]
cuda(model) == [model EXCEPT !.device = "gpu"]
cpu(model) == [model EXCEPT !.device = "cpu"]

\* Model.get_pred(model(*inputs)): one prediction and one score per input.
get_pred(model_inputs) ==
    [predictions |-> [j \in 1..Len(model_inputs) |-> <<"pred", model_inputs[j]>>],
     scores |-> [j \in 1..Len(model_inputs) |-> <<"score", model_inputs[j]>>]]

(* ----------------------------- from_config ---------------------------- *)
TaskConfigs == [exporter : {None, ExporterConfig},
                scheduler : {SchedulerConfig}]
MetadataArgs == {None, EmptyDict, SavedMetadata}
ModelStateArgs == {None, EmptyDict, SavedState}

\* task.py 84-89
ResolveMetadataCalls(metadata) ==
    IF Truthy(metadata) THEN <<Call("load_metadata", metadata)>>
                        ELSE <<Call("init_metadata", None)>>

ResolveMetadata(metadata) ==
    IF Truthy(metadata) THEN load_metadata(metadata) ELSE init_metadata

\* task.py 92-93
LoadStateCalls(model_state) ==
    IF Truthy(model_state) THEN <<Call("load_state_dict", model_state)>>
                           ELSE <<>>

LoadState(model, model_state) ==
    IF Truthy(model_state) THEN load_state_dict(model, model_state) ELSE model

\* task.py 94-95
PlaceAlways(flag) == <<Call("cuda", None)>>

PlaceCalls(flag) == IF flag THEN <<Call("cuda", None)>> ELSE <<>>

Place(model, flag) == IF Len(PlaceCalls(flag)) > 0 THEN cuda(model) ELSE model

\* task.py 91-95: the calls that create, load and place the model
ModelCalls(md, model_state, flag) ==
    <<Call("create_model", md)>> \o LoadStateCalls(model_state)
        \o PlaceCalls(flag)

\* task.py 98-108
ExporterAlways(exporter_config, md) ==
    [kind |-> "ModelExporter", metadata |-> md]

MakeExporter(exporter_config, md) ==
    IF Truthy(exporter_config)
    THEN [kind |-> "ModelExporter", metadata |-> md]
    ELSE None

ExporterCalls(exporter_config, md) ==
    IF ~IsNone(MakeExporter(exporter_config, md))
    THEN <<Call("create_exporter", md)>> ELSE <<>>

\* task.py 109-119: the keyword arguments of cls(...) are evaluated in order
TailCallsTrainerFirst(exporter_config, md) ==
    <<Call("create_trainer", None)>> \o ExporterCalls(exporter_config, md)
        \o <<Call("Scheduler", None)>>

TailCalls(exporter_config, md) ==
    ExporterCalls(exporter_config, md)
        \o <<Call("create_trainer", None), Call("Scheduler", None)>>

\* task.py 75-119: every collaborator call of from_config, in order
FromConfigCalls(task_config, metadata, model_state, flag) ==
    LET md == ResolveMetadata(metadata) IN
    <<Call("create_featurizer", None), Call("create_data_handler", None)>>
    \o ResolveMetadataCalls(metadata)
    \o ModelCalls(md, model_state, flag)
    \o <<Call("create_metric_reporter", md), Call("create_optimizer", None)>>
    \o TailCalls(task_config.exporter, md)

\* task.py 121-137
TaskInit(trainer, data_handler, model, metric_reporter, optimizers, lr_scheduler, exporter) ==
    [kind |-> "Task", trainer |-> trainer, data_handler |-> data_handler,
     model |-> model, metric_reporter |-> metric_reporter,
     optimizers |-> optimizers, lr_scheduler |-> lr_scheduler,
     exporter |-> exporter]

\* task.py 75-119: the Task from_config returns when no factory raises
FromConfigTask(task_config, metadata, model_state, flag) ==
    LET featurizer == [kind |-> "Featurizer"]
        md == ResolveMetadata(metadata)
        data_handler == [kind |-> "DataHandler", featurizer |-> featurizer,
                         metadata |-> md]
        model == Place(LoadState(create_model(md), model_state), flag)
        metric_reporter == [kind |-> "MetricReporter", metadata |-> md]
        optimizers == [kind |-> "Optimizers", model |-> model]
        exporter == MakeExporter(task_config.exporter, md)
    IN  TaskInit([kind |-> "Trainer"], data_handler, model, metric_reporter,
                 optimizers,
                 [kind |-> "Scheduler", optimizers |-> optimizers,
                  config |-> task_config.scheduler],
                 exporter)

ConfigTestPath == "config_test.tsv"

\* from_config; when may_raise, any one of its calls may raise
FromConfigRun(may_raise) ==
    \E task_config \in TaskConfigs, metadata \in MetadataArgs,
       model_state \in ModelStateArgs :
      LET full == FromConfigCalls(task_config, metadata, model_state,
                                  CUDA_ENABLED)
      IN \E fail \in (IF may_raise THEN 0..Len(full) ELSE {0}) :
          /\ calls' = IF fail = 0 THEN full \o <<Call("__init__", None)>>
                                  ELSE Reached(full, fail)
          /\ outcome' = IF fail = 0 THEN "returned" ELSE "raised"
          /\ task' = IF fail = 0
                     THEN FromConfigTask(task_config, metadata, model_state,
                                         CUDA_ENABLED)
                     ELSE task
          /\ training' = IF fail = 0 THEN TRUE ELSE training
          /\ test_path' = IF fail = 0 THEN ConfigTestPath ELSE test_path
          /\ result' = None
          /\ last' = [op |-> "from_config", task_config |-> task_config,
                      metadata |-> metadata, model_state |-> model_state,
                      flag |-> CUDA_ENABLED]
          /\ UNCHANGED <<CUDA_ENABLED, before_export>>

\* An assembly in which any factory may raise.
FromConfigMayRaise == FromConfigRun(TRUE)

\* An assembly that returns its Task.  One that raises returns nothing and
\* assigns nothing, so the life of a Task is followed without it.
FromConfig == FromConfigRun(FALSE)

(* -------------------------------- train ------------------------------- *)
Shards == {[kind |-> "Shard", rank |-> 0, world_size |-> 1],
           [kind |-> "Shard", rank |-> 1, world_size |-> 2]}

\* task.py 149-158
TrainCalls(shard) ==
    <<Call("get_train_iter", shard), Call("get_eval_iter", None),
      Call("trainer.train", None)>>

\* The trainer switches the model between training and evaluation mode as it
\* runs; the mode it leaves behind is its own business.
Train ==
    /\ ~IsNone(task)
    /\ \E shard \in Shards, mode \in BOOLEAN :
        LET full == TrainCalls(shard) IN
        \E fail \in 0..Len(full) :
          /\ calls' = Reached(full, fail)
          /\ outcome' = IF fail = 0 THEN "returned" ELSE "raised"
          /\ training' = IF "trainer.train" \in Names(Reached(full, fail))
                         THEN mode ELSE training
          /\ result' = None
          /\ last' = [op |-> "train", shard |-> shard]
          /\ UNCHANGED <<CUDA_ENABLED, task, test_path, before_export>>

(* -------------------------------- test -------------------------------- *)
TestPaths == {"holdout.tsv"}

\* task.py 167-169
TestCalls == <<Call("get_test_iter", None), Call("trainer.test", None)>>

Test ==
    /\ ~IsNone(task)
    /\ \E path \in TestPaths, mode \in BOOLEAN :
        LET full == TestCalls IN
        \E fail \in 0..Len(full) :
          /\ test_path' = path
          /\ calls' = Reached(full, fail)
          /\ outcome' = IF fail = 0 THEN "returned" ELSE "raised"
          /\ training' = IF "trainer.test" \in Names(Reached(full, fail))
                         THEN mode ELSE training
          /\ result' = None
          /\ last' = [op |-> "test", path |-> path]
          /\ UNCHANGED <<CUDA_ENABLED, task, before_export>>

(* ------------------------------- export ------------------------------- *)
ExportPaths == {"model.caffe2"}

\* task.py 182
ExportFlagKept(before) == before

ExportFlag(before) == FALSE

\* task.py 183-188
ExportCallsGraphAlways(exporter, summary_writer, export_path) ==
    <<Call("cpu", None)>>
    \o (IF ~IsNone(summary_writer) THEN <<Call("add_graph", None)>> ELSE <<>>)
    \o (IF Truthy(exporter)
        THEN <<Call("export_to_caffe2", [kind |-> "Path", name |-> export_path])>>
        ELSE <<>>)

ExportCalls(exporter, summary_writer, export_path) ==
    <<Call("cpu", None)>>
    \o (IF Truthy(exporter)
        THEN (IF ~IsNone(summary_writer) THEN <<Call("add_graph", None)>>
                                         ELSE <<>>)
             \o <<Call("export_to_caffe2",
                       [kind |-> "Path", name |-> export_path])>>
        ELSE <<>>)

\* task.py 171-188: the Task after export; `model = model.cpu()` binds the
\* local name only
ExportTaskRebound(t, model) == [t EXCEPT !.model = cpu(model)]

ExportTask(t, model) == t

Export ==
    /\ ~IsNone(task)
    /\ \E model \in {task.model, cuda(task.model)},
          summary_writer \in {None, SummaryWriter},
          export_path \in ExportPaths :
        LET full == ExportCalls(task.exporter, summary_writer, export_path) IN
        \E fail \in 0..Len(full) :
          /\ CUDA_ENABLED' = ExportFlag(CUDA_ENABLED)
          /\ task' = ExportTask(task, model)
          /\ calls' = Reached(full, fail)
          /\ outcome' = IF fail = 0 THEN "returned" ELSE "raised"
          /\ result' = None
          /\ last' = [op |-> "export", model |-> model,
                      summary_writer |-> summary_writer,
                      flag |-> CUDA_ENABLED]
          /\ before_export' = IF before_export # "never" THEN before_export
                             ELSE IF CUDA_ENABLED THEN "enabled"
                             ELSE "disabled"
          /\ UNCHANGED <<training, test_path>>

(* ------------------------------- predict ------------------------------ *)
\* The examples are told apart by their position in the caller's list.
Examples(n) == [i \in 1..n |-> <<"example", i>>]

\* The orders in which the data handler can hand n examples to the model:
\* context[BatchContext.INDEX][j] is the original (0-based) position of the
\* j-th processed item.
Indexes(n) == {p \in [1..n -> 0..(n - 1)] :
                 \A a, b \in 1..n : a # b => p[a] # p[b]}

\* Indexes(n) for every length predict is called with
IndexesOf == [n \in 0..MaxExamples |-> Indexes(n)]

get_predict_iter(examples, index) ==
    [model_inputs |-> [j \in 1..Len(index) |-> examples[index[j] + 1]],
     context |-> [INDEX |-> index]]

\* task.py 190-197: zip stops at the shorter of its arguments
format_prediction(predictions, scores) ==
    [j \in 1..Min(Len(predictions), Len(scores)) |->
        [kind |-> "dict", prediction |-> predictions[j], score |-> scores[j]]]

\* task.py 214-220
RECURSIVE RearrangeNot(_, _, _, _)
RearrangeNot(results, index, formatted, j) ==
    IF j > Min(Len(index), Len(formatted)) THEN results
    ELSE RearrangeNot([results EXCEPT ![j] = formatted[j]],
                      index, formatted, j + 1)

RECURSIVE Rearrange(_, _, _, _)
Rearrange(results, index, formatted, j) ==
    IF j > Min(Len(index), Len(formatted)) THEN results
    ELSE Rearrange([results EXCEPT ![index[j] + 1] = formatted[j]],
                   index, formatted, j + 1)

\* task.py 210-221
PredictResults(examples, index) ==
    LET it == get_predict_iter(examples, index)
        out == get_pred(it.model_inputs)
        results == [i \in 1..Len(out.predictions) |-> None]
    IN  Rearrange(results, it.context.INDEX,
                  format_prediction(out.predictions, out.scores), 1)

\* model.eval() leaves the module in evaluation mode.
ModeAfter(cs, mode) == IF "eval" \in Names(cs) THEN FALSE ELSE mode

Mode(mode) == [kind |-> "Mode", training |-> mode]

\* task.py 209-211: each call is logged with the mode the model is in when
\* it is made
PredictCallsEvalLast(mode) ==
    LET c1 == <<Call("get_predict_iter", Mode(mode))>>
        c2 == c1 \o <<Call("forward", Mode(ModeAfter(c1, mode)))>>
        c3 == c2 \o <<Call("get_pred", Mode(ModeAfter(c2, mode)))>>
    IN  c3 \o <<Call("eval", Mode(ModeAfter(c3, mode)))>>

PredictCalls(mode) ==
    LET c1 == <<Call("eval", Mode(mode))>>
        c2 == c1 \o <<Call("get_predict_iter", Mode(ModeAfter(c1, mode)))>>
        c3 == c2 \o <<Call("forward", Mode(ModeAfter(c2, mode)))>>
    IN  c3 \o <<Call("get_pred", Mode(ModeAfter(c3, mode)))>>

\* A predict that returns.  One in which a collaborator raises returns no
\* list, and leaves the model in the mode it had or in evaluation mode.
Predict ==
    /\ ~IsNone(task)
    /\ \E n \in 0..MaxExamples :
        \E index \in IndexesOf[n] :
          /\ calls' = PredictCalls(training)
          /\ outcome' = "returned"
          /\ training' = ModeAfter(PredictCalls(training), training)
          /\ result' = [kind |-> "list",
                        items |-> PredictResults(Examples(n), index)]
          /\ last' = [op |-> "predict", examples |-> Examples(n),
                      index |-> index, training |-> training]
          /\ UNCHANGED <<CUDA_ENABLED, task, test_path, before_export>>

Init ==
    /\ CUDA_ENABLED \in BOOLEAN
    /\ task = None
    /\ training = TRUE
    /\ test_path = ConfigTestPath
    /\ calls = <<>>
    /\ outcome = "none"
    /\ result = None
    /\ last = [op |-> "none"]
    /\ before_export = "never"

Next == FromConfig \/ Train \/ Test \/ Export \/ Predict

Spec == Init /\ [][Next]_vars

NextAssembly == FromConfigMayRaise

SpecAssembly == Init /\ [][NextAssembly]_vars
(* ============================== properties ============================ *)
Count(cs, fns) == Cardinality({i \in 1..Len(cs) : cs[i].fn \in fns})

\* C1: a predict that returns gives one entry per example, none of them
\* None, and entry i is the formatted prediction and score of the caller's
\* i-th example, whatever order the data handler processed them in.
C1_PredictRestoresOrder ==
    (last.op = "predict" /\ outcome = "returned") =>
        /\ result.kind = "list"
        /\ Len(result.items) = Len(last.examples)
        /\ \A i \in 1..Len(last.examples) :
             /\ ~IsNone(result.items[i])
             /\ result.items[i].prediction = <<"pred", last.examples[i]>>
             /\ result.items[i].score = <<"score", last.examples[i]>>

C1_Witness ==
    /\ last.op = "predict" /\ outcome = "returned"
    /\ Len(last.examples) = 3
    /\ last.index = <<2, 0, 1>>
    /\ result.items[1].prediction = <<"pred", <<"example", 1>>>>

\* C2: after every export, returning or raising, with or without an
\* exporter, CUDA_ENABLED is False.
C2_ExportDisablesCuda ==
    last.op = "export" => CUDA_ENABLED = FALSE

C2_Witness ==
    /\ last.op = "export" /\ last.flag = TRUE
    /\ outcome = "raised"
    /\ CUDA_ENABLED = FALSE

\* C3 as stated: with no exporter, export returns without raising and calls
\* neither export_to_caffe2 nor add_graph.
C3_NoExporterNeverRaises ==
    (last.op = "export" /\ IsNone(task.exporter)) =>
        /\ outcome = "returned"
        /\ Names(calls) \cap {"export_to_caffe2", "add_graph"} = {}

\* C3 amended: with no exporter, export calls neither export_to_caffe2 nor
\* add_graph, and raises only what model.cpu() raises.
C3_NoExporterOnlyCpu ==
    (last.op = "export" /\ IsNone(task.exporter)) =>
        /\ Names(calls) \cap {"export_to_caffe2", "add_graph"} = {}
        /\ calls = <<Call("cpu", None)>>
        /\ outcome \in {"returned", "raised"}

C3_Witness ==
    /\ last.op = "export" /\ IsNone(task.exporter)
    /\ ~IsNone(last.summary_writer)
    /\ outcome = "returned"
    /\ "add_graph" \notin Names(calls)

\* C4 as stated: once from_config has resolved the metadata, exactly one of
\* load_metadata and init_metadata was called, once, before create_model;
\* it was load_metadata whenever the metadata argument is not None, and the
\* model then gets the supplied metadata.
C4_SuppliedMetadataIsLoaded ==
    (last.op = "from_config" /\ "create_model" \in Names(calls)) =>
        /\ Count(calls, {"load_metadata", "init_metadata"}) = 1
        /\ \A i \in 1..Len(calls) :
             calls[i].fn \in {"load_metadata", "init_metadata"}
                 => i < Pos(calls, "create_model")
        /\ ~IsNone(last.metadata) =>
             /\ "load_metadata" \in Names(calls)
             /\ calls[Pos(calls, "create_model")].arg = last.metadata
        /\ IsNone(last.metadata) => "init_metadata" \in Names(calls)

\* C5: a from_config that returns gives a Task none of whose components is
\* None, except the exporter, which is None exactly when the configuration
\* has no exporter; create_exporter is called exactly when it has one.
Components == {"trainer", "data_handler", "model", "metric_reporter",
               "optimizers", "lr_scheduler"}

C5_ComponentsPresent ==
    /\ (last.op = "from_config" /\ outcome = "returned") =>
        /\ \A f \in Components : ~IsNone(task[f])
        /\ IsNone(task.exporter) <=> IsNone(last.task_config.exporter)
        /\ Count(calls, {"create_exporter"}) =
              (IF IsNone(last.task_config.exporter) THEN 0 ELSE 1)
    /\ (last.op = "from_config" /\ "create_exporter" \in Names(calls)) =>
        ~IsNone(last.task_config.exporter)

C5_Witness ==
    /\ last.op = "from_config" /\ outcome = "returned"
    /\ IsNone(last.task_config.exporter)
    /\ IsNone(task.exporter)
    /\ ~IsNone(task.lr_scheduler)

\* C6: from_config creates its components in the order featurizer, data
\* handler, model, metric reporter, optimizers, exporter (when configured),
\* trainer, scheduler, and constructs the Task last; the metadata is
\* resolved between the data handler and the model.
Order == <<"create_featurizer", "create_data_handler", "create_model",
           "create_metric_reporter", "create_optimizer", "create_exporter",
           "create_trainer", "Scheduler", "__init__">>

Rank(fn) == CHOOSE k \in 1..Len(Order) : Order[k] = fn

IsCreation(c) == \E k \in 1..Len(Order) : Order[k] = c.fn

C6_CreationOrder ==
    last.op = "from_config" =>
        LET made == SelectSeq(calls, IsCreation) IN
        /\ \A i, j \in 1..Len(made) :
             i < j => Rank(made[i].fn) < Rank(made[j].fn)
        /\ \A i \in 1..Len(made) : \A k \in 1..(Rank(made[i].fn) - 1) :
             Order[k] \in Names(made)
                \/ (Order[k] = "create_exporter"
                       /\ IsNone(last.task_config.exporter))
        /\ "create_model" \in Names(calls) =>
             \E i \in 1..Len(calls) :
                /\ calls[i].fn \in {"load_metadata", "init_metadata"}
                /\ Pos(calls, "create_data_handler") < i
                /\ i < Pos(calls, "create_model")

C6_Witness ==
    /\ last.op = "from_config" /\ outcome = "returned"
    /\ ~IsNone(last.task_config.exporter)
    /\ Pos(calls, "create_exporter") + 1 = Pos(calls, "create_trainer")
    /\ calls[Len(calls)].fn = "__init__"

\* C7 as stated: in a from_config that returns, a model state other than
\* None was loaded after create_model, before any cuda() and before
\* create_optimizer; cuda() was called exactly when CUDA_ENABLED; the Task's
\* model is the placed model and the optimizers are bound to it.
C7_SuppliedStateIsLoaded ==
    (last.op = "from_config" /\ outcome = "returned") =>
        /\ ~IsNone(last.model_state) =>
             /\ "load_state_dict" \in Names(calls)
             /\ Pos(calls, "create_model") < Pos(calls, "load_state_dict")
             /\ "cuda" \in Names(calls) =>
                  Pos(calls, "load_state_dict") < Pos(calls, "cuda")
             /\ Pos(calls, "load_state_dict") < Pos(calls, "create_optimizer")
        /\ "cuda" \in Names(calls) <=> last.flag
        /\ task.model.device = "gpu" <=> last.flag
        /\ task.optimizers.model = task.model

\* C8: nothing re-enables CUDA_ENABLED; once export has been invoked the
\* flag is disabled for good, and a from_config made after it calls no
\* cuda() and returns a Task whose model is on the CPU.
C8_FlagStaysDisabled ==
    /\ [](before_export # "never" => CUDA_ENABLED = FALSE)
    /\ [][CUDA_ENABLED = FALSE => CUDA_ENABLED' = FALSE]_vars
    /\ []((before_export # "never" /\ last.op = "from_config") =>
            /\ "cuda" \notin Names(calls)
            /\ outcome = "returned" => task.model.device = "cpu")

C8_Witness ==
    /\ before_export = "enabled"
    /\ last.op = "from_config" /\ outcome = "returned"
    /\ "cuda" \notin Names(calls)
    /\ task.model.device = "cpu"

\* C9: train, test, predict and export leave every field of the Task as it
\* is; test sets data_handler.test_path to its argument and no other
\* method writes it.
C9_TaskFieldsNotRebound ==
    [][last'.op \in {"train", "test", "predict", "export"} =>
          /\ task' = task
          /\ last'.op = "test" => test_path' = last'.path
          /\ last'.op # "test" => test_path' = test_path]_vars

C9_Witness ==
    /\ last.op = "export" /\ outcome = "returned"
    /\ last.model = task.model
    /\ task.model.device = "gpu"

\* C10: predict calls model.eval() before get_predict_iter and before the
\* forward pass, so both run with the model in evaluation mode, whatever
\* mode it was in when predict was called.
C10_EvalBeforeForward ==
    last.op = "predict" =>
        \A fn \in {"get_predict_iter", "forward"} :
            fn \in Names(calls) =>
                /\ "eval" \in Names(calls)
                /\ Pos(calls, "eval") < Pos(calls, fn)
                /\ calls[Pos(calls, fn)].arg.training = FALSE

C10_Witness ==
    /\ last.op = "predict" /\ last.training = TRUE
    /\ "forward" \in Names(calls)
    /\ training = FALSE
====
